---- MODULE Spec2Model ----
(***************************************************************************)
(* AudioPlayer (src/client/voice/player/AudioPlayer.js): the registry of   *)
(* the streams of one voice connection.  `streams` is an insertion-ordered *)
(* Collection from a stream handle to {transcoder, dispatcher, input}.     *)
(* Every operation of the player runs to completion (single-threaded       *)
(* JavaScript), so each action below is one whole call or one whole        *)
(* listener invocation, the listeners it fires synchronously included.     *)
(***************************************************************************)
EXTENDS Integers, Sequences, FiniteSets, TLC

\* ---------------------------------------------------------------- bounds
NumSources == 2       \* stream objects the caller owns
MaxTranscoders == 1   \* prism.transcode calls in one behaviour
MaxDispatchers == 2   \* StreamDispatcher constructions in one behaviour
MaxListeners == 1     \* 'error' listeners the caller registers on the player
MaxEntries == 2       \* entries of a registry drawn by InitAny
MaxFrames == 2        \* frames emitted in one behaviour

SeqModulus == 65536           \* `sequence` is a 16-bit counter
LongRun == SeqModulus - 1     \* frames of the stream InitFrames has behind it

VARIABLES
  streams,      \* this.streams: sequence of entries in insertion order
  nT,           \* transcoders started so far; their ids are 1..nT
  nD,           \* dispatchers constructed so far; their ids are 1..nD
  tKills,       \* tKills[t]: how many times transcoder.kill() ran on t
  tMedia,       \* tMedia[t]: the `stream` the error listener of t closes over
  dStream,      \* dStream[d]: the `stream` the listeners of d close over
  dDestroyed,   \* dDestroyed[d]: d reached its terminal state
  listeners,    \* this.listenerCount('error')
  syncEnd,      \* whether dispatcher.destroy fires 'end' listeners synchronously
  log,          \* what the last operation did, in order
  dSpeaking,    \* dSpeaking[d]: the value d last signalled with 'speaking'
  speaking,     \* the value voiceConnection.setSpeaking was last called with
  streamingData,\* this.streamingData: its sequence field
  dFrames,      \* dFrames[d]: frames dispatcher d has emitted
  builder,      \* a ContextMenuCommandBuilder: its five fields
  result        \* the last call on the builder and what it returned

playerVars == <<streams, nT, nD, tKills, tMedia, dStream, dDestroyed, listeners, syncEnd, log,
                dSpeaking, speaking, streamingData, dFrames>>
builderVars == <<builder, result>>
vars == <<playerVars, builderVars>>

\* ---------------------------------------------------------------- handles
\* A stream handle is an object reference; <<"src", i>> is a stream of the
\* caller, <<"out", t>> is transcoder.output of transcoder t.
Source(i) == <<"src", i>>
Output(t) == <<"out", t>>
Sources == {Source(i) : i \in 1..NumSources}
Outputs(n) == {Output(t) : t \in 1..n}
Undefined == <<"undefined", 0>>   \* destroyAllStreams() without an argument
True == <<"true", 0>>             \* destroyAllStreams(true)

Ev(tag, id, key) == <<tag, id, key>>
Val(value) == <<value, 0>>        \* a signal's payload in the place of a handle
Tag(e) == e[1]
Id(e) == e[2]
Key(e) == e[3]

\* ---------------------------------------------------------------- Collection
Has(s, k) == \E i \in 1..Len(s) : s[i].key = k
Get(s, k) == s[CHOOSE i \in 1..Len(s) : s[i].key = k]
Last(s) == s[Len(s)]
Delete(s, k) == SelectSeq(s, LAMBDA e : e.key # k)
Set(s, k, e) ==
  IF Has(s, k) THEN [i \in 1..Len(s) |-> IF s[i].key = k THEN e ELSE s[i]]
  ELSE Append(s, e)
KeySeq(s) == [i \in 1..Len(s) |-> s[i].key]
KeySet(s) == {s[i].key : i \in 1..Len(s)}

\* The player's state as one value, threaded through the statements of a call.
State ==
  [streams |-> streams, nT |-> nT, nD |-> nD, tKills |-> tKills, tMedia |-> tMedia,
   dStream |-> dStream, dDestroyed |-> dDestroyed, depth |-> 0, log |-> log,
   dSpeaking |-> dSpeaking, speaking |-> speaking, streamingData |-> streamingData,
   dFrames |-> dFrames]

Logged(st, e) == [st EXCEPT !.log = Append(@, e)]

RECURSIVE DestroyStream(_, _)
RECURSIVE DispatcherDestroy(_, _)
RECURSIVE DestroyAllLoop(_, _, _)

\* transcoder.kill()
TranscoderKill(st, t) ==
  Logged([st EXCEPT !.tKills[t] = @ + 1], Ev("kill", t, Output(t)))

\* destroyStream without its last statement
DeleteEntryKeeps(st, stream) == st

\* this.streams.delete(stream)
DeleteEntry(st, stream) == [st EXCEPT !.streams = Delete(@, stream)]

\* an 'end' listener that does not reach destroyStream
EndHandlerIgnores(st, d) == Logged(st, Ev("on:end", d, st.dStream[d]))

\* an 'end' listener that purges the whole registry instead of its own stream
EndHandlerDestroysAll(st, d) ==
  DestroyAllLoop(Logged(st, Ev("on:end", d, st.dStream[d])), Undefined, KeySeq(st.streams))

\* dispatcher.on('end', () => this.destroyStream(stream))
EndHandler(st, d) == DestroyStream(Logged(st, Ev("on:end", d, st.dStream[d])), st.dStream[d])

\* dispatcher.on('error', () => this.destroyStream(stream))
ErrorHandler(st, d) == DestroyStream(Logged(st, Ev("on:error", d, st.dStream[d])), st.dStream[d])

\* one tick of the pacing loop of a dispatcher that is not paused: a frame is
\* emitted and the counters of the player's streamingData advance
Tick(st, d) ==
  Logged([st EXCEPT !.streamingData.sequence = (@ + 1) % SeqModulus,
                    !.dFrames[d] = @ + 1],
         Ev("frame", d, st.dStream[d]))

\* dispatcher.on('speaking', value => this.voiceConnection.setSpeaking(value))
SpeakingHandler(st, d, value) ==
  Logged([st EXCEPT !.speaking = value], Ev("setSpeaking", d, Val(value)))

\* the dispatcher emits speaking(value)
EmitSpeaking(st, d, value) ==
  SpeakingHandler(Logged([st EXCEPT !.dSpeaking[d] = value], Ev("emit:speaking", d, Val(value))),
                  d, value)

\* a dispatcher that stops signals speaking(false) if it was speaking
StopSpeaking(st, d) ==
  IF st.dSpeaking[d] = "true" THEN EmitSpeaking(st, d, "false") ELSE st

\* the dispatcher enters its terminal state: nothing is emitted by it afterwards
Terminal(st, d) == StopSpeaking([st EXCEPT !.dDestroyed[d] = TRUE], d)

\* StreamDispatcher.destroy('end'): idempotent; the first call puts the
\* dispatcher in its terminal state and, when syncEnd, emits 'end' at once.
DispatcherDestroy(st, d) ==
  IF st.dDestroyed[d] THEN st
  ELSE LET s1 == Terminal(Logged(st, Ev("destroy", d, st.dStream[d])), d)
       IN IF syncEnd THEN EndHandler(s1, d) ELSE s1

\* destroyStream(stream)
DestroyStream(st, stream) ==
  LET s0 == Logged([st EXCEPT !.depth = @ + 1], Ev("destroyStream", st.depth + 1, stream))
  IN IF ~Has(s0.streams, stream) THEN [s0 EXCEPT !.depth = @ - 1]
     ELSE LET data == Get(s0.streams, stream)
              transcoder == data.transcoder
              dispatcher == data.dispatcher
              s1 == IF transcoder # 0 THEN TranscoderKill(s0, transcoder) ELSE s0
              s2 == IF dispatcher # 0 THEN DispatcherDestroy(s1, dispatcher) ELSE s1
              s3 == DeleteEntry(s2, stream)
          IN [s3 EXCEPT !.depth = @ - 1]

\* the first comparison inverted: only the excepted stream is destroyed
SkipsInverted(s, except, stream) ==
  \/ except # stream
  \/ except = True /\ Get(s, stream) = Last(s)

\* first() where the code has last()
SkipsFirst(s, except, stream) ==
  \/ except = stream
  \/ except = True /\ Get(s, stream) = s[1]

\* a loop body without its two `continue` statements
SkipsNothing(s, except, stream) == FALSE

\* The two `continue` conditions of destroyAllStreams; entries are compared
\* by identity, and an entry is identified by its key.
Skips(s, except, stream) ==
  \/ except = stream
  \/ except = True /\ Get(s, stream) = Last(s)

\* for (const stream of this.streams.keys()): the iterator is live, so a key
\* deleted before its turn is not visited; nothing is inserted by the body.
DestroyAllLoop(st, except, ks) ==
  IF ks = <<>> THEN st
  ELSE LET stream == Head(ks)
       IN IF ~Has(st.streams, stream) THEN DestroyAllLoop(st, except, Tail(ks))
          ELSE IF Skips(st.streams, except, stream) THEN DestroyAllLoop(st, except, Tail(ks))
          ELSE DestroyAllLoop(DestroyStream(st, stream), except, Tail(ks))

\* destroyAllStreams(except)
DestroyAllStreams(st, except) == DestroyAllLoop(st, except, KeySeq(st.streams))

\* a dispatcher construction that restarts the sequence counter
NewDispatcherResets(st, stream) ==
  LET d == st.nD + 1
  IN Logged([st EXCEPT !.nD = d, !.dStream[d] = stream, !.dDestroyed[d] = FALSE,
                       !.streamingData.sequence = 0],
            Ev("new", d, stream))

\* new StreamDispatcher(this, stream, options)
NewDispatcher(st, stream) ==
  LET d == st.nD + 1
  IN Logged([st EXCEPT !.nD = d, !.dStream[d] = stream, !.dDestroyed[d] = FALSE],
            Ev("new", d, stream))

\* playPCMStream without the has() test of line 74: the entry is always replaced
PlayPCMStreamOverwrites(st, stream) ==
  LET s1 == DestroyAllStreams(st, stream)
      s2 == NewDispatcher(s1, stream)
      dispatcher == s2.nD
      s3 == [s2 EXCEPT !.streams = Set(@, stream,
               [key |-> stream, transcoder |-> 0, dispatcher |-> dispatcher, input |-> stream])]
  IN Logged(s3, Ev("return", dispatcher, stream))

\* playPCMStream(stream, options); the dispatcher returned is st.nD afterwards
PlayPCMStream(st, stream) ==
  LET s1 == DestroyAllStreams(st, stream)
      s2 == NewDispatcher(s1, stream)
      dispatcher == s2.nD
      s3 == IF ~Has(s2.streams, stream)
            THEN [s2 EXCEPT !.streams = Set(@, stream,
                    [key |-> stream, transcoder |-> 0, dispatcher |-> dispatcher, input |-> stream])]
            ELSE s2
      s4 == [s3 EXCEPT !.streams = Set(@, stream, [Get(@, stream) EXCEPT !.dispatcher = dispatcher])]
  IN Logged(s4, Ev("return", dispatcher, stream))

\* this.prism.transcode({type: 'ffmpeg', media: stream, ...})
Transcode(st, stream) ==
  LET t == st.nT + 1
  IN Logged([st EXCEPT !.nT = t, !.tMedia[t] = stream], Ev("transcode", t, stream))

\* playUnknownStream(stream, options)
PlayUnknownStream(st, stream) ==
  LET s1 == Transcode(st, stream)
      transcoder == s1.nT
      s2 == [s1 EXCEPT !.streams = Set(@, Output(transcoder),
               [key |-> Output(transcoder), transcoder |-> transcoder, dispatcher |-> 0, input |-> stream])]
  IN PlayPCMStream(s2, Output(transcoder))

\* emit('error') without the listenerCount guard
EmitErrorUnguarded(st, t) == Logged(st, Ev("emit:error", t, Output(t)))

\* if (this.listenerCount('error') > 0) this.emit('error', e)
EmitError(st, t) ==
  IF listeners > 0 THEN Logged(st, Ev("emit:error", t, Output(t))) ELSE st

\* this.emit('warn', `prism transcoder error - ${e}`)
EmitWarn(st, t) == Logged(st, Ev("emit:warn", t, Output(t)))

\* transcoder.on('error', e => { ... })
TranscoderErrorHandler(st, t) ==
  LET s1 == DestroyStream(st, st.tMedia[t])
      s2 == EmitError(s1, t)
  IN EmitWarn(s2, t)

\* first() where the getter has last()
CurrentTranscoderFirst(st) ==
  IF st.streams = <<>> THEN Logged(st, Ev("throw", 0, Undefined))
  ELSE Logged(st, Ev("return", st.streams[1].transcoder, st.streams[1].key))

\* get currentTranscoder(): this.streams.last().transcoder; last() of an empty
\* Collection is undefined, and reading .transcoder of undefined throws
CurrentTranscoder(st) ==
  IF st.streams = <<>> THEN Logged(st, Ev("throw", 0, Undefined))
  ELSE Logged(st, Ev("return", Last(st.streams).transcoder, Last(st.streams).key))

\* ---------------------------------------------------------------- actions
Begin(tag, id, key) == [State EXCEPT !.log = <<Ev(tag, id, key)>>]

Commit(st) ==
  /\ streams' = st.streams
  /\ nT' = st.nT
  /\ nD' = st.nD
  /\ tKills' = st.tKills
  /\ tMedia' = st.tMedia
  /\ dStream' = st.dStream
  /\ dDestroyed' = st.dDestroyed
  /\ log' = st.log
  /\ dSpeaking' = st.dSpeaking
  /\ speaking' = st.speaking
  /\ streamingData' = st.streamingData
  /\ dFrames' = st.dFrames
  /\ UNCHANGED <<listeners, syncEnd, builderVars>>

\* the handles the caller can hold: its own streams and transcoder outputs
Handles == Sources \cup Outputs(nT)

CallPlayUnknownStream ==
  \E stream \in Sources :
    /\ nT < MaxTranscoders
    /\ nD < MaxDispatchers
    /\ Commit(PlayUnknownStream(Begin("playUnknownStream", 0, stream), stream))

CallPlayPCMStream ==
  \E stream \in Handles :
    /\ nD < MaxDispatchers
    /\ Commit(PlayPCMStream(Begin("playPCMStream", 0, stream), stream))

CallDestroyStream ==
  \E stream \in Handles :
    Commit(DestroyStream(Begin("call:destroyStream", 0, stream), stream))

CallDestroyAllStreams ==
  \E except \in Handles \cup {Undefined, True} :
    Commit(DestroyAllStreams(Begin("destroyAllStreams", 0, except), except))

ReadCurrentTranscoder ==
  Commit(CurrentTranscoder(Begin("currentTranscoder", 0, Undefined)))

\* the transcoder emits 'error'; the listener of line 61 is never removed, so
\* the signal can arrive at any time after prism.transcode
TranscoderError ==
  \E t \in 1..nT :
    Commit(TranscoderErrorHandler(Begin("transcoderError", t, Output(t)), t))

\* a live dispatcher reaches the end of its stream: terminal state, then 'end'
DispatcherEnd ==
  \E d \in 1..nD :
    /\ ~dDestroyed[d]
    /\ Commit(EndHandler(Terminal(Begin("dispatcherEnd", d, dStream[d]), d), d))

\* a live dispatcher fails: terminal state, then 'error'
DispatcherError ==
  \E d \in 1..nD :
    /\ ~dDestroyed[d]
    /\ Commit(ErrorHandler(Terminal(Begin("dispatcherError", d, dStream[d]), d), d))

\* a live dispatcher's speaking state changes
DispatcherSpeaking ==
  \E d \in 1..nD :
    /\ ~dDestroyed[d]
    /\ Commit(EmitSpeaking(Begin("dispatcherSpeaking", d, dStream[d]), d,
                           IF dSpeaking[d] = "true" THEN "false" ELSE "true"))

\* frames emitted by the dispatchers 1..n
RECURSIVE Frames(_, _)
Frames(f, n) == IF n = 0 THEN 0 ELSE f[n] + Frames(f, n - 1)
TotalFrames == Frames(dFrames, MaxDispatchers)

\* the frames the behaviour started with
FirstRun == IF TotalFrames >= LongRun THEN LongRun ELSE 0

\* the pacing timer of a live dispatcher fires
DispatcherTick ==
  \E d \in 1..nD :
    /\ ~dDestroyed[d]
    /\ TotalFrames - FirstRun < MaxFrames
    /\ Commit(Tick(Begin("dispatcherTick", d, dStream[d]), d))

\* player.on('error', listener) / player.removeListener('error', listener)
AddErrorListener ==
  /\ listeners < MaxListeners
  /\ listeners' = listeners + 1
  /\ log' = <<Ev("on", 0, Undefined)>>
  /\ UNCHANGED <<streams, nT, nD, tKills, tMedia, dStream, dDestroyed, syncEnd,
                 dSpeaking, speaking, streamingData, dFrames, builderVars>>

RemoveErrorListener ==
  /\ listeners > 0
  /\ listeners' = listeners - 1
  /\ log' = <<Ev("removeListener", 0, Undefined)>>
  /\ UNCHANGED <<streams, nT, nD, tKills, tMedia, dStream, dDestroyed, syncEnd,
                 dSpeaking, speaking, streamingData, dFrames, builderVars>>

\* ---------------------------------------------------------------- builder
\* new ContextMenuCommandBuilder(): every field is undefined
NewBuilder ==
  [name |-> "undefined", type |-> "undefined", default_permission |-> "undefined",
   default_member_permissions |-> "undefined", dm_permission |-> "undefined"]

\* no call has been made on the builder yet
NoCall == [call |-> "new", threw |-> FALSE, returned |-> "none", data |-> NewBuilder]

\* what a call on the builder produced: it threw, it returned the builder
\* itself, or it returned a fresh object with the fields `data`
Threw(call) == [call |-> call, threw |-> TRUE, returned |-> "none", data |-> NewBuilder]
ReturnedThis(call) == [call |-> call, threw |-> FALSE, returned |-> "this", data |-> NewBuilder]
ReturnedCopy(call, data) == [call |-> call, threw |-> FALSE, returned |-> "copy", data |-> data]

\* the arguments the setters are called with
NameInputs == {"", "ban", "kick"}
TypeInputs == {"ChatInput", "User", "Message"}
BooleanInputs == {"true", "false", "yes"}
PermissionInputs == {"undefined", "null", "8", "8n", "x"}
DMInputs == {"undefined", "null", "true", "false", "yes"}

\* the assertions of ./Assertions: a name is a non-empty string, a type is one
\* of the two context menu types, a permission flag is a boolean
ValidName(name) == name \in NameInputs \ {""}
ValidType(type) == type \in {"User", "Message"}
ValidBoolean(value) == value \in {"true", "false"}
ValidDmPermission(value) == value \in {"undefined", "null", "true", "false"}
\* a permission set is absent, or a number, bigint or numeric string
ValidMemberPermission(p) == p \in {"undefined", "null", "8", "8n"}
\* the parsed permission set: the decimal string of the bit field
ParsedMemberPermission(p) == IF p = "8n" THEN "8" ELSE p

\* validateRequiredParameters(name, type) asserts both as the setters do
ValidRequiredParameters(name, type) == ValidName(name) /\ ValidType(type)

\* a toJSON that returns the copy without validating
ToJSONUnchecked(b) == ReturnedCopy("toJSON", b)

\* toJSON(): validateRequiredParameters(this.name, this.type); return {...this}
ToJSON(b) ==
  IF ~ValidRequiredParameters(b.name, b.type) THEN Threw("toJSON")
  ELSE ReturnedCopy("toJSON", b)

SetName ==
  \E name \in NameInputs :
    /\ IF ValidName(name)
         THEN builder' = [builder EXCEPT !.name = name] /\ result' = ReturnedThis("setName")
         ELSE builder' = builder /\ result' = Threw("setName")
    /\ UNCHANGED playerVars

SetType ==
  \E type \in TypeInputs :
    /\ IF ValidType(type)
         THEN builder' = [builder EXCEPT !.type = type] /\ result' = ReturnedThis("setType")
         ELSE builder' = builder /\ result' = Threw("setType")
    /\ UNCHANGED playerVars

SetDefaultPermission ==
  \E value \in BooleanInputs :
    /\ IF ValidBoolean(value)
         THEN /\ builder' = [builder EXCEPT !.default_permission = value]
              /\ result' = ReturnedThis("setDefaultPermission")
         ELSE builder' = builder /\ result' = Threw("setDefaultPermission")
    /\ UNCHANGED playerVars

SetDefaultMemberPermissions ==
  \E permissions \in PermissionInputs :
    /\ IF ValidMemberPermission(permissions)
         THEN /\ builder' = [builder EXCEPT !.default_member_permissions =
                                               ParsedMemberPermission(permissions)]
              /\ result' = ReturnedThis("setDefaultMemberPermissions")
         ELSE builder' = builder /\ result' = Threw("setDefaultMemberPermissions")
    /\ UNCHANGED playerVars

SetDMPermission ==
  \E enabled \in DMInputs :
    /\ IF ValidDmPermission(enabled)
         THEN /\ builder' = [builder EXCEPT !.dm_permission = enabled]
              /\ result' = ReturnedThis("setDMPermission")
         ELSE builder' = builder /\ result' = Threw("setDMPermission")
    /\ UNCHANGED playerVars

CallToJSON ==
  /\ result' = ToJSON(builder)
  /\ UNCHANGED builder
  /\ UNCHANGED playerVars

\* the state after `new AudioPlayer(voiceConnection)`
Init ==
  /\ streams = <<>>
  /\ nT = 0
  /\ nD = 0
  /\ tKills = [t \in 1..MaxTranscoders |-> 0]
  /\ tMedia = [t \in 1..MaxTranscoders |-> Undefined]
  /\ dStream = [d \in 1..MaxDispatchers |-> Undefined]
  /\ dDestroyed = [d \in 1..MaxDispatchers |-> FALSE]
  /\ listeners = 0
  /\ syncEnd \in BOOLEAN
  /\ log = <<Ev("new AudioPlayer", 0, Undefined)>>
  /\ dSpeaking = [d \in 1..MaxDispatchers |-> "none"]
  /\ speaking = "none"
  /\ streamingData = [sequence |-> 0]
  /\ dFrames = [d \in 1..MaxDispatchers |-> 0]
  /\ builder = NewBuilder
  /\ result = NoCall

Next ==
  \/ CallPlayUnknownStream
  \/ CallPlayPCMStream
  \/ CallDestroyStream
  \/ CallDestroyAllStreams
  \/ ReadCurrentTranscoder
  \/ TranscoderError
  \/ DispatcherEnd
  \/ DispatcherError
  \/ AddErrorListener
  \/ RemoveErrorListener

Spec == Init /\ [][Next]_vars

\* The 'speaking' signal and the pacing tick neither read nor write the
\* registry; they are added to the player's operations where they matter.
NextSpeaking == Next \/ DispatcherSpeaking

SpecSpeaking == Init /\ [][NextSpeaking]_vars

\* the state after playPCMStream(Source(1)) and LongRun ticks of its dispatcher
InitLongRun ==
  /\ streams = <<[key |-> Source(1), transcoder |-> 0, dispatcher |-> 1, input |-> Source(1)]>>
  /\ nT = 0
  /\ nD = 1
  /\ tKills = [t \in 1..MaxTranscoders |-> 0]
  /\ tMedia = [t \in 1..MaxTranscoders |-> Undefined]
  /\ dStream = [d \in 1..MaxDispatchers |-> IF d = 1 THEN Source(1) ELSE Undefined]
  /\ dDestroyed = [d \in 1..MaxDispatchers |-> FALSE]
  /\ listeners = 0
  /\ syncEnd \in BOOLEAN
  /\ log = <<Ev("dispatcherTick", 1, Source(1)), Ev("frame", 1, Source(1))>>
  /\ dSpeaking = [d \in 1..MaxDispatchers |-> "none"]
  /\ speaking = "none"
  /\ streamingData = [sequence |-> LongRun % SeqModulus]
  /\ dFrames = [d \in 1..MaxDispatchers |-> IF d = 1 THEN LongRun ELSE 0]
  /\ builder = NewBuilder
  /\ result = NoCall

InitFrames == Init \/ InitLongRun

\* the operations that reach a dispatcher, and the tick
NextFrames ==
  \/ CallPlayUnknownStream
  \/ CallPlayPCMStream
  \/ CallDestroyStream
  \/ CallDestroyAllStreams
  \/ TranscoderError
  \/ DispatcherEnd
  \/ DispatcherError
  \/ DispatcherTick

SpecFrames == InitFrames /\ [][NextFrames]_vars

\* ---------------------------------------------------------------- any registry
\* A registry as the code can build it but with any number of entries (the
\* state inside playUnknownStream between lines 60 and 71, or a Collection
\* filled through the public `streams` field): distinct keys; entry i holds
\* dispatcher i, whose listeners close over the entry's key (lines 72-77), or
\* no dispatcher yet (line 60); an entry keyed by transcoder.output may hold
\* that transcoder.
InjectiveSeqs(S, n) == {ks \in [1..n -> S] : \A i, j \in 1..n : ks[i] = ks[j] => i = j}

AnyEntry(key, i, withT, withD) ==
  [key |-> key,
   transcoder |-> IF withT /\ key[1] = "out" THEN key[2] ELSE 0,
   dispatcher |-> IF withD \/ ~(withT /\ key[1] = "out") THEN i ELSE 0,
   input |-> IF withT /\ key[1] = "out" THEN Source(1) ELSE key]

InitAny ==
  \E n \in 0..MaxEntries, nt \in 0..MaxTranscoders :
    \E ks \in InjectiveSeqs(Sources \cup Outputs(nt), n),
       withT \in [1..n -> BOOLEAN], withD \in [1..n -> BOOLEAN] :
      /\ \A i \in 1..n : ks[i][1] = "src" => withT[i] /\ withD[i]
      /\ streams = [i \in 1..n |-> AnyEntry(ks[i], i, withT[i], withD[i])]
      /\ nT = nt
      /\ nD = n
      /\ tKills = [t \in 1..MaxTranscoders |->
                     IF t <= nt /\ ~\E i \in 1..n : ks[i] = Output(t) /\ withT[i] THEN 1 ELSE 0]
      /\ tMedia = [t \in 1..MaxTranscoders |-> IF t <= nt THEN Source(1) ELSE Undefined]
      /\ dStream = [d \in 1..MaxDispatchers |-> IF d <= n THEN ks[d] ELSE Undefined]
      /\ dDestroyed = [d \in 1..MaxDispatchers |->
                         d <= n /\ ~(withD[d] \/ ~(withT[d] /\ ks[d][1] = "out"))]
      /\ listeners \in 0..MaxListeners
      /\ syncEnd \in BOOLEAN
      /\ log = <<Ev("new AudioPlayer", 0, Undefined)>>
      /\ dSpeaking = [d \in 1..MaxDispatchers |-> "none"]
      /\ speaking = "none"
      /\ streamingData = [sequence |-> 0]
      /\ dFrames = [d \in 1..MaxDispatchers |-> 0]
      /\ builder = NewBuilder
      /\ result = NoCall

SpecAny == InitAny /\ [][Next]_vars

\* the calls on a ContextMenuCommandBuilder, next to a player nobody uses
NextBuilder ==
  \/ SetName
  \/ SetType
  \/ SetDefaultPermission
  \/ SetDefaultMemberPermissions
  \/ SetDMPermission
  \/ CallToJSON

SpecBuilder == Init /\ [][NextBuilder]_vars

\* ---------------------------------------------------------------- properties
\* what the last operation was and what it did
Op == Tag(Head(log))
Did(l, tag) == {i \in 1..Len(l) : Tag(l[i]) = tag}
Returned(l) == Id(l[Len(l)])
Live == {d \in 1..nD : ~dDestroyed[d]}

\* C1: playPCMStream(s1) followed by playPCMStream(s2), s1 # s2: the dispatcher
\* the first call returned is destroyed before the second one is constructed,
\* the registry holds s2 with the dispatcher the second call returned, and it
\* holds no entry for s1.
C1_ReplacedBeforeConstructed ==
  [][(Tag(Head(log)) = "playPCMStream" /\ Tag(Head(log')) = "playPCMStream"
        /\ Key(Head(log)) # Key(Head(log')))
     => LET s1 == Key(Head(log))
            s2 == Key(Head(log'))
            d1 == Returned(log)
            d2 == Returned(log')
        IN /\ d1 # d2
           /\ dDestroyed'[d1]
           /\ \E i, j \in 1..Len(log') :
                i < j /\ log'[i] = Ev("destroy", d1, s1) /\ log'[j] = Ev("new", d2, s2)
           /\ Has(streams', s2)
           /\ Get(streams', s2).dispatcher = d2
           /\ ~dDestroyed'[d2]
           /\ ~Has(streams', s1)]_vars

\* a playPCMStream that destroyed the dispatcher of another caller-owned stream
C1_Witness ==
  /\ Op = "playPCMStream"
  /\ \E i \in Did(log, "destroy") : Key(log[i]) \in Sources /\ Key(log[i]) # Key(Head(log))
  /\ KeySet(streams) = {Key(Head(log))}

\* C2: at most one dispatcher created by the player is live (constructed and
\* not yet destroyed) in every reachable state.
C2_SingleLiveDispatcher == Cardinality(Live) <= 1

\* C3: when a transcoder reports an error, the entry keyed by its output is
\* removed from the registry, the transcoder is killed and the entry's
\* dispatcher is destroyed.
C3_TranscoderErrorDestroysEntry ==
  [][Tag(Head(log')) = "transcoderError"
     => LET t == Id(Head(log'))
        IN (Has(streams, Output(t)) /\ Get(streams, Output(t)).transcoder = t)
           => /\ ~Has(streams', Output(t))
              /\ tKills'[t] > tKills[t]
              /\ Get(streams, Output(t)).dispatcher # 0
                   => dDestroyed'[Get(streams, Output(t)).dispatcher]]_vars

\* C4: a transcoder error makes the player emit exactly one of 'error' and
\* 'warn': 'error' when an 'error' listener is registered, otherwise 'warn'.
C4_ExactlyOneSignal ==
  Op = "transcoderError"
    => /\ Cardinality(Did(log, "emit:error")) + Cardinality(Did(log, "emit:warn")) = 1
       /\ (Did(log, "emit:error") # {}) <=> (listeners > 0)

\* C5: a transcoder error makes the player emit at least one of 'error' and
\* 'warn', and 'error' is never emitted while the player has no 'error' listener.
C5_NeverDroppedNeverThrown ==
  Op = "transcoderError"
    => /\ Did(log, "emit:error") \cup Did(log, "emit:warn") # {}
       /\ Did(log, "emit:error") # {} => listeners > 0

\* a transcoder error handled with no 'error' listener: only 'warn' is emitted
C5_Witness ==
  /\ Op = "transcoderError"
  /\ listeners = 0
  /\ Did(log, "emit:warn") # {}
  /\ Did(log, "emit:error") = {}

\* C6: when a dispatcher emits 'end' or 'error', afterwards the registry has no
\* entry for its stream, the transcoder of that entry (if any) has been
\* killed, and no dispatcher or transcoder has been created.
C6_SignalOnlyCleansUp ==
  [][Tag(Head(log')) \in {"dispatcherEnd", "dispatcherError"}
     => LET s == dStream[Id(Head(log'))]
        IN /\ ~Has(streams', s)
           /\ (Has(streams, s) /\ Get(streams, s).transcoder # 0)
                => tKills'[Get(streams, s).transcoder] > 0
           /\ nD' = nD
           /\ nT' = nT
           /\ Did(log', "new") \cup Did(log', "transcode") = {}]_vars

\* an 'end' signal that removed an entry holding a transcoder
C6_Witness ==
  /\ Op = "dispatcherEnd"
  /\ Did(log, "kill") # {}
  /\ ~Has(streams, Key(Head(log)))

\* C7: on a non-empty registry destroyAllStreams(true) leaves exactly the entry
\* that was last in insertion order, its transcoder not killed and its
\* dispatcher not destroyed by the call.
C7_KeepMostRecent ==
  [][(Head(log') = Ev("destroyAllStreams", 0, True) /\ streams # <<>>)
     => LET last == Last(streams)
        IN /\ streams' = <<last>>
           /\ last.transcoder # 0 => tKills'[last.transcoder] = tKills[last.transcoder]
           /\ last.dispatcher # 0 => dDestroyed'[last.dispatcher] = dDestroyed[last.dispatcher]
           /\ \A i \in Did(log', "kill") \cup Did(log', "destroy") : Key(log'[i]) # last.key]_vars

\* destroyAllStreams(true) that destroyed an earlier entry whose 'end' listener
\* ran inside the iteration, and kept one entry
C7_Witness ==
  /\ Head(log) = Ev("destroyAllStreams", 0, True)
  /\ Did(log, "on:end") # {}
  /\ Len(streams) = 1
  /\ \A i \in Did(log, "destroy") : Key(log[i]) # streams[1].key

\* C8: destroyStream(h) twice leaves the player as destroyStream(h) once does,
\* and destroyStream of a handle that is not in the registry changes nothing
\* and calls neither transcoder.kill nor dispatcher.destroy.
C8_DestroyStreamIdempotent ==
  [][Tag(Head(log')) = "call:destroyStream"
     => LET h == Key(Head(log'))
            again == DestroyStream([State' EXCEPT !.log = <<>>], h)
        IN /\ again.streams = streams'
           /\ again.tKills = tKills'
           /\ again.dDestroyed = dDestroyed'
           /\ Did(again.log, "kill") \cup Did(again.log, "destroy") = {}
           /\ ~Has(streams, h)
                => /\ UNCHANGED <<streams, tKills, dDestroyed>>
                   /\ Did(log', "kill") \cup Did(log', "destroy") = {}]_vars

\* destroyStream of a registered handle whose transcoder and dispatcher it stopped
C8_Witness ==
  /\ Op = "call:destroyStream"
  /\ Did(log, "kill") # {}
  /\ Did(log, "destroy") # {}
  /\ ~Has(streams, Key(Head(log)))

\* C9: when dispatcher.destroy fires the stream's own 'end' listener inside
\* destroyStream(s), the nested destroyStream(s) returns (nesting never goes
\* beyond the one re-entry), the entry for s is removed, and every other
\* entry stays, with nothing of it killed or destroyed.
C9_ReentrancySafe ==
  [][(Tag(Head(log')) = "call:destroyStream" /\ syncEnd)
     => LET s == Key(Head(log'))
        IN /\ \A i \in Did(log', "destroyStream") : Id(log'[i]) <= 2 /\ Key(log'[i]) = s
           /\ streams' = Delete(streams, s)
           /\ \A i \in Did(log', "kill") \cup Did(log', "destroy") : Key(log'[i]) = s
           /\ \A i \in 1..Len(streams) :
                streams[i].key # s
                  => /\ streams[i].transcoder # 0
                          => tKills'[streams[i].transcoder] = tKills[streams[i].transcoder]
                     /\ streams[i].dispatcher # 0
                          => dDestroyed'[streams[i].dispatcher] = dDestroyed[streams[i].dispatcher]]_vars

\* destroyStream(s) re-entered from the 'end' listener of s while another
\* entry is in the registry
C9_Witness ==
  /\ Op = "call:destroyStream"
  /\ \E i \in Did(log, "destroyStream") : Id(log[i]) = 2 /\ Key(log[i]) = Key(Head(log))
  /\ streams # <<>>
  /\ ~Has(streams, Key(Head(log)))

\* C10: every entry of the registry holds a transcoder that was not killed or
\* a dispatcher that was not destroyed.
C10_NoDeadEntry ==
  \A i \in 1..Len(streams) :
    \/ streams[i].transcoder # 0 /\ tKills[streams[i].transcoder] = 0
    \/ streams[i].dispatcher # 0 /\ ~dDestroyed[streams[i].dispatcher]

\* a dispatcher failed and its entry, transcoder included, left the registry
C10_Witness ==
  /\ Op = "dispatcherError"
  /\ dDestroyed[Id(Head(log))]
  /\ Did(log, "kill") # {}
  /\ ~Has(streams, Key(Head(log)))

\* C11: destroyAllStreams(h) with a handle h removes every entry whose key is
\* not h, with its transcoder killed and its dispatcher destroyed, and leaves
\* the entry of h as it was, nothing of it killed or destroyed;
\* destroyAllStreams() leaves the registry empty.
C11_ExceptHandle ==
  [][(Tag(Head(log')) = "destroyAllStreams" /\ Key(Head(log')) # True)
     => LET h == Key(Head(log'))
        IN /\ streams' = SelectSeq(streams, LAMBDA e : e.key = h)
           /\ h = Undefined => streams' = <<>>
           /\ \A i \in Did(log', "kill") \cup Did(log', "destroy") : Key(log'[i]) # h
           /\ \A i \in 1..Len(streams) :
                IF streams[i].key = h
                THEN /\ streams[i].transcoder # 0
                          => tKills'[streams[i].transcoder] = tKills[streams[i].transcoder]
                     /\ streams[i].dispatcher # 0
                          => dDestroyed'[streams[i].dispatcher] = dDestroyed[streams[i].dispatcher]
                ELSE /\ streams[i].transcoder # 0
                          => tKills'[streams[i].transcoder] > tKills[streams[i].transcoder]
                     /\ streams[i].dispatcher # 0 => dDestroyed'[streams[i].dispatcher]]_vars

\* destroyAllStreams(h) that kept the entry of h and destroyed another one
C11_Witness ==
  /\ Op = "destroyAllStreams"
  /\ Key(Head(log)) \notin {True, Undefined}
  /\ KeySet(streams) = {Key(Head(log))}
  /\ Did(log, "destroy") # {}

\* C12: on a non-empty registry currentTranscoder returns the transcoder field
\* of the entry that is last in insertion order (absent when that entry has
\* none), and the read changes nothing.
C12_CurrentTranscoderIsLast ==
  [][(Tag(Head(log')) = "currentTranscoder" /\ streams # <<>>)
     => /\ log'[2] = Ev("return", streams[Len(streams)].transcoder, streams[Len(streams)].key)
        /\ UNCHANGED <<streams, nT, nD, tKills, tMedia, dStream, dDestroyed, listeners>>]_vars

\* a read on a registry of two entries whose last entry holds a transcoder
C12_Witness ==
  /\ Op = "currentTranscoder"
  /\ Len(streams) >= 2
  /\ Tag(log[2]) = "return"
  /\ Id(log[2]) # 0
  /\ streams[1].transcoder = 0

\* C13: on an empty registry reading currentTranscoder returns an absent
\* value and raises no error.
C13_EmptyReadReturnsAbsent ==
  (Op = "currentTranscoder" /\ streams = <<>>)
    => /\ Tag(log[2]) = "return"
       /\ Id(log[2]) = 0

\* C14: every speaking(v) signal of a dispatcher causes exactly one
\* voiceConnection.setSpeaking(v), in the order of the signals, and
\* setSpeaking is called for no other reason; so the value setSpeaking was
\* last called with is the value the dispatcher the registry records as
\* current last signalled.
C14_SpeakingFollowsCurrent ==
  /\ \A i \in Did(log, "emit:speaking") :
       i < Len(log) /\ log[i + 1] = Ev("setSpeaking", Id(log[i]), Key(log[i]))
  /\ \A j \in Did(log, "setSpeaking") :
       j > 1 /\ log[j - 1] = Ev("emit:speaking", Id(log[j]), Key(log[j]))
  /\ \A i \in 1..Len(streams) :
       (streams[i].dispatcher # 0 /\ dSpeaking[streams[i].dispatcher] # "none")
         => speaking = dSpeaking[streams[i].dispatcher]

C17_UnknownStreamEntry ==
  [][/\ Tag(Head(log')) = "playUnknownStream"
          => /\ nT' = nT + 1
             /\ Output(nT') # Key(Head(log'))
             /\ Returned(log') = nD'
             /\ ~dDestroyed'[nD']
             /\ streams' = <<[key |-> Output(nT'), transcoder |-> nT',
                              dispatcher |-> Returned(log'), input |-> Key(Head(log'))]>>
     /\ (Tag(Head(log')) = "playPCMStream" /\ Has(streams, Key(Head(log'))))
          => streams' = <<[Get(streams, Key(Head(log'))) EXCEPT !.dispatcher = Returned(log')]>>]_vars

\* playUnknownStream that purged an earlier entry and registered its own
C17_Witness ==
  /\ Op = "playUnknownStream"
  /\ Did(log, "destroy") # {}
  /\ Len(streams) = 1
  /\ streams[1].transcoder = nT
  /\ streams[1].dispatcher = nD

\* C18: between two operations the registry holds at most one entry.
C18_AtMostOneEntry == Len(streams) <= 1

\* a playback that replaced the entry of a caller-owned stream
C18_Witness ==
  /\ Op \in {"playUnknownStream", "playPCMStream"}
  /\ \E i \in Did(log, "destroyStream") : Key(log[i]) \in Sources /\ Key(log[i]) # streams[1].key
  /\ Did(log, "destroy") # {}
  /\ Len(streams) = 1

\* C19: an 'end' or 'error' signal of a dispatcher that is not the one the
\* registry records for its stream kills no transcoder, destroys no other
\* dispatcher and removes no entry.
C19_StaleSignalHarmless ==
  [][Tag(Head(log')) \in {"dispatcherEnd", "dispatcherError"}
     => LET d == Id(Head(log'))
            s == dStream[d]
        IN (~Has(streams, s) \/ Get(streams, s).dispatcher # d)
           => /\ streams' = streams
              /\ tKills' = tKills
              /\ \A e \in 1..nD : e # d => dDestroyed'[e] = dDestroyed[e]]_vars

\* C20: a transcoder is killed exactly once: never twice, and once its entry
\* has left the registry, not zero times.
C20_KilledExactlyOnce ==
  \A t \in 1..nT :
    /\ tKills[t] <= 1
    /\ (~\E i \in 1..Len(streams) : streams[i].transcoder = t) => tKills[t] = 1

TypeOK ==
  /\ nT \in 0..MaxTranscoders
  /\ nD \in 0..MaxDispatchers
  /\ listeners \in 0..MaxListeners
  /\ \A i \in 1..Len(streams) :
       /\ streams[i].transcoder \in 0..nT
       /\ streams[i].dispatcher \in 0..nD
  /\ \A i, j \in 1..Len(streams) : streams[i].key = streams[j].key => i = j
====
